---- MODULE Spec2Model ----
(***************************************************************************)
(* Model of backend/src/settings.rs: resolution of the runtime             *)
(* Environment from a string, the layered loader get_settings (base.yaml,  *)
(* <environment>.yaml, APP_ environment variables) and the derivation of   *)
(* the database connection options.                                        *)
(*                                                                         *)
(* Strings whose characters the code inspects (environment names, file     *)
(* names, variable names, values to be parsed) are sequences of            *)
(* one-character strings.                                                  *)
(***************************************************************************)
EXTENDS Integers, Sequences, FiniteSets, TLC

VARIABLES
    files,        \* the settings directory: file name -> [exists, wellformed, table]
    environ,      \* the process environment: variable name -> value
    intCast,      \* how the linked config crate narrows integers: "checked" | "wrapping"
    calls,        \* number of get_settings calls so far
    result,       \* what the last get_settings call produced
    word,         \* try_from harness: the lower-case word the input was built from
    s,            \* try_from harness: the input string
    parsed,       \* try_from harness: the outcome of Environment::try_from(s)
    db,           \* connect_to_db harness: the DatabaseSettings value
    options,      \* connect_to_db harness: the PgConnectOptions returned
    connections   \* connect_to_db harness: connections opened so far

vars == <<files, environ, intCast, calls, result,
          word, s, parsed, db, options, connections>>

loaderVars == <<files, environ, intCast, calls, result>>
envVars    == <<word, s, parsed>>
dbVars     == <<db, options, connections>>

(***************************************************************************)
(* Characters and strings                                                  *)
(***************************************************************************)
UpperLetters == <<"A", "B", "C", "D", "E", "F", "G", "H", "I", "J", "K", "L", "M",
                  "N", "O", "P", "Q", "R", "S", "T", "U", "V", "W", "X", "Y", "Z">>
LowerLetters == <<"a", "b", "c", "d", "e", "f", "g", "h", "i", "j", "k", "l", "m",
                  "n", "o", "p", "q", "r", "s", "t", "u", "v", "w", "x", "y", "z">>

LowerChar(c) ==
    IF \E i \in 1..Len(UpperLetters) : UpperLetters[i] = c
    THEN LowerLetters[CHOOSE i \in 1..Len(UpperLetters) : UpperLetters[i] = c]
    ELSE c

UpperChar(c) ==
    IF \E i \in 1..Len(LowerLetters) : LowerLetters[i] = c
    THEN UpperLetters[CHOOSE i \in 1..Len(LowerLetters) : LowerLetters[i] = c]
    ELSE c

to_lowercase_identity(str) == str

\* str::to_lowercase
to_lowercase(str) == [i \in 1..Len(str) |-> LowerChar(str[i])]

to_uppercase(str) == [i \in 1..Len(str) |-> UpperChar(str[i])]

StartsWith(str, prefix) ==
    /\ Len(str) >= Len(prefix)
    /\ SubSeq(str, 1, Len(prefix)) = prefix

\* The character U+0060, which a TLA+ string cannot hold.
Backquote == "backquote"

development == <<"d", "e", "v", "e", "l", "o", "p", "m", "e", "n", "t">>
production == <<"p", "r", "o", "d", "u", "c", "t", "i", "o", "n">>
yaml_ext == <<".", "y", "a", "m", "l">>
base_yaml == <<"b", "a", "s", "e", ".", "y", "a", "m", "l">>
development_yaml == <<"d", "e", "v", "e", "l", "o", "p", "m", "e", "n", "t", ".", "y", "a", "m", "l">>
production_yaml == <<"p", "r", "o", "d", "u", "c", "t", "i", "o", "n", ".", "y", "a", "m", "l">>
unsupported_suffix == <<" ", "i", "s", " ", "n", "o", "t", " ", "a", " ", "s", "u", "p", "p", "o", "r", "t", "e", "d", " ", "e", "n", "v", "i", "r", "o", "n", "m", "e", "n", "t", ".", " ", "U", "s", "e", " ", "e", "i", "t", "h", "e", "r", " ", Backquote, "d", "e", "v", "e", "l", "o", "p", "m", "e", "n", "t", Backquote, " ", "o", "r", " ", Backquote, "p", "r", "o", "d", "u", "c", "t", "i", "o", "n", Backquote, ".">>
APP_ENVIRONMENT == <<"A", "P", "P", "_", "E", "N", "V", "I", "R", "O", "N", "M", "E", "N", "T">>

(***************************************************************************)
(* enum Environment, as_str and TryFrom<String>                            *)
(***************************************************************************)
Environment == {"Development", "Production"}

as_str(e) == IF e = "Development" THEN development ELSE production

\* Result<Environment, String>: env is "None" on Err, err is <<>> on Ok.
try_from(str) ==
    LET other == to_lowercase(str) IN
    IF other = development
    THEN [ok |-> TRUE, env |-> "Development", err |-> <<>>]
    ELSE IF other = production
    THEN [ok |-> TRUE, env |-> "Production", err |-> <<>>]
    ELSE [ok |-> FALSE, env |-> "None", err |-> other \o unsupported_suffix]

(***************************************************************************)
(* Environment::try_from applied to bounded inputs                         *)
(***************************************************************************)
staging == <<"s", "t", "a", "g", "i", "n", "g">>

\* Lower-case words the inputs are built from: the two supported tokens, the
\* empty string, tokens with surrounding white space, near misses.
Words ==
    { development, production, <<>>, staging,
      <<" ">> \o development, production \o <<" ">>,
      <<"d", "e", "v">>, <<"p", "r", "o", "d">>,
      development \o <<"s">>, SubSeq(production, 1, 9) }

\* word with the letters at the positions in m upper-cased
Capitalise(w, m) == [i \in 1..Len(w) |-> IF i \in m THEN UpperChar(w[i]) ELSE w[i]]

NotParsed == [called |-> FALSE, ok |-> FALSE, env |-> "None", err |-> <<>>]

IdleLoader ==
    /\ files = <<>>
    /\ environ = <<>>
    /\ intCast = "checked"
    /\ calls = 0
    /\ result = <<>>

IdleEnv ==
    /\ word = <<>>
    /\ s = <<>>
    /\ parsed = NotParsed

IdleDb ==
    /\ db = <<>>
    /\ options = <<>>
    /\ connections = 0

InitEnv ==
    /\ word \in Words
    /\ \E m \in SUBSET (1..Len(word)) : s = Capitalise(word, m)
    /\ parsed = NotParsed
    /\ IdleLoader
    /\ IdleDb

TryFrom ==
    /\ ~parsed.called
    /\ parsed' = [called |-> TRUE] @@ try_from(s)
    /\ UNCHANGED <<word, s>>
    /\ UNCHANGED loaderVars
    /\ UNCHANGED dbVars

NextEnv == TryFrom

SpecEnv == InitEnv /\ [][NextEnv]_vars

\* C1: every string that is "development" or "production" up to letter case
\* resolves to Development resp. Production; every other string (the empty
\* string, white space around the token, near misses) fails with the
\* unsupported-environment error and yields no variant.
C1_EnvironmentResolution ==
    parsed.called =>
        /\ word = development => parsed.ok /\ parsed.env = "Development"
        /\ word = production => parsed.ok /\ parsed.env = "Production"
        /\ word \notin {development, production} =>
              /\ ~parsed.ok
              /\ parsed.env = "None"
              /\ SubSeq(parsed.err, Len(s) + 1, Len(parsed.err)) = unsupported_suffix

C1_Witness ==
    /\ parsed.called
    /\ parsed.ok
    /\ parsed.env = "Production"
    /\ s # word
    /\ s # to_uppercase(word)

\* C8: the error of a failed resolution carries the input string exactly as
\* supplied (same characters, same letter case) and the two valid options.
C8_ErrorCarriesInputVerbatim ==
    (parsed.called /\ ~parsed.ok) => parsed.err = s \o unsupported_suffix

(***************************************************************************)
(* DatabaseSettings::connect_to_db                                         *)
(***************************************************************************)
localhost == <<"l", "o", "c", "a", "l", "h", "o", "s", "t">>
postgres == <<"p", "o", "s", "t", "g", "r", "e", "s">>

PgSslMode == {"Disable", "Allow", "Prefer", "Require", "VerifyCa", "VerifyFull"}

\* PgConnectOptions::new(): the library's defaults, every one of which the
\* builder calls of connect_to_db overwrite, bar the statement log level.
PgConnectOptions_new ==
    [ built |-> TRUE,
      host |-> localhost,
      port |-> 5432,
      username |-> <<>>,
      password |-> <<>>,
      database |-> <<>>,
      ssl_mode |-> "Prefer",
      log_statements |-> "Default" ]

NoOptions ==
    [ built |-> FALSE,
      host |-> <<>>,
      port |-> 0,
      username |-> <<>>,
      password |-> <<>>,
      database |-> <<>>,
      ssl_mode |-> "Prefer",
      log_statements |-> "Default" ]

connect_to_db_never_require(self) ==
    LET ssl_mode == IF self.require_ssl THEN "Prefer" ELSE "Disable" IN
    [ PgConnectOptions_new EXCEPT
        !.host = self.host,
        !.username = self.username,
        !.password = self.password,
        !.port = self.port,
        !.ssl_mode = ssl_mode,
        !.database = self.database_name,
        !.log_statements = "Trace" ]

connect_to_db_user_as_database(self) ==
    LET ssl_mode == IF self.require_ssl THEN "Require" ELSE "Prefer" IN
    [ PgConnectOptions_new EXCEPT
        !.host = self.host,
        !.username = self.username,
        !.password = self.password,
        !.port = self.port,
        !.ssl_mode = ssl_mode,
        !.database = self.username,
        !.log_statements = "Trace" ]

connect_to_db(self) ==
    LET ssl_mode == IF self.require_ssl THEN "Require" ELSE "Prefer" IN
    [ PgConnectOptions_new EXCEPT
        !.host = self.host,
        !.username = self.username,
        !.password = self.password,
        !.port = self.port,
        !.ssl_mode = ssl_mode,
        !.database = self.database_name,
        !.log_statements = "Trace" ]

\* The DatabaseSettings values connect_to_db is applied to.
DbUsernames == { postgres, <<"a", "p", "p">> }
DbPasswords == { <<>>, <<"s", "3", "c", "r", "e", "t">> }
DbPorts == { 0, 5432, 65535 }
DbHosts == { localhost, <<"d", "b">> }
DbNames == { postgres, <<"a", "u", "t", "h">> }

DatabaseSettings ==
    [ username : DbUsernames,
      password : DbPasswords,
      port : DbPorts,
      host : DbHosts,
      database_name : DbNames,
      require_ssl : BOOLEAN ]

InitDb ==
    /\ db \in DatabaseSettings
    /\ options = NoOptions
    /\ connections = 0
    /\ IdleLoader
    /\ IdleEnv

ConnectToDb ==
    /\ options' = connect_to_db(db)
    /\ UNCHANGED <<db, connections>>
    /\ UNCHANGED loaderVars
    /\ UNCHANGED envVars

NextDb == ConnectToDb

SpecDb == InitDb /\ [][NextDb]_vars

\* C5: the derived options have SSL mode Require when require_ssl is true and
\* Prefer when it is false; no DatabaseSettings value yields Disable or any
\* other mode.
C5_SslFloor ==
    options.built =>
        /\ db.require_ssl => options.ssl_mode = "Require"
        /\ ~db.require_ssl => options.ssl_mode = "Prefer"
        /\ options.ssl_mode \in {"Require", "Prefer"}

C5_Witness ==
    /\ options.built
    /\ ~db.require_ssl
    /\ options.ssl_mode = "Prefer"

\* C10: connect_to_db copies host, username, password, port and database name
\* from the settings into the returned options, leaves the DatabaseSettings
\* value unchanged, sets the statement log level on the returned options and
\* opens no connection.
C10_PureFieldCopy ==
    [][ (options' # options) =>
            /\ options'.built
            /\ options'.host = db.host
            /\ options'.username = db.username
            /\ options'.password = db.password
            /\ options'.port = db.port
            /\ options'.database = db.database_name
            /\ options'.log_statements = "Trace"
            /\ db' = db
            /\ connections' = connections ]_vars

C10_Witness ==
    /\ options.built
    /\ options.username # options.database
    /\ options.host = db.host
    /\ options.log_statements = "Trace"

(***************************************************************************)
(* Settings and the configuration values its fields are read from          *)
(***************************************************************************)
FieldTable ==
    <<
      [ path |-> "application.port", type |-> "u16",
        section |-> <<"a", "p", "p", "l", "i", "c", "a", "t", "i", "o", "n">>,
        leaf |-> <<"p", "o", "r", "t">> ],
      [ path |-> "application.host", type |-> "String",
        section |-> <<"a", "p", "p", "l", "i", "c", "a", "t", "i", "o", "n">>,
        leaf |-> <<"h", "o", "s", "t">> ],
      [ path |-> "application.base_url", type |-> "String",
        section |-> <<"a", "p", "p", "l", "i", "c", "a", "t", "i", "o", "n">>,
        leaf |-> <<"b", "a", "s", "e", "_", "u", "r", "l">> ],
      [ path |-> "application.protocol", type |-> "String",
        section |-> <<"a", "p", "p", "l", "i", "c", "a", "t", "i", "o", "n">>,
        leaf |-> <<"p", "r", "o", "t", "o", "c", "o", "l">> ],
      [ path |-> "debug", type |-> "bool",
        section |-> <<>>,
        leaf |-> <<"d", "e", "b", "u", "g">> ],
      [ path |-> "database.username", type |-> "String",
        section |-> <<"d", "a", "t", "a", "b", "a", "s", "e">>,
        leaf |-> <<"u", "s", "e", "r", "n", "a", "m", "e">> ],
      [ path |-> "database.password", type |-> "String",
        section |-> <<"d", "a", "t", "a", "b", "a", "s", "e">>,
        leaf |-> <<"p", "a", "s", "s", "w", "o", "r", "d">> ],
      [ path |-> "database.port", type |-> "u16",
        section |-> <<"d", "a", "t", "a", "b", "a", "s", "e">>,
        leaf |-> <<"p", "o", "r", "t">> ],
      [ path |-> "database.host", type |-> "String",
        section |-> <<"d", "a", "t", "a", "b", "a", "s", "e">>,
        leaf |-> <<"h", "o", "s", "t">> ],
      [ path |-> "database.database_name", type |-> "String",
        section |-> <<"d", "a", "t", "a", "b", "a", "s", "e">>,
        leaf |-> <<"d", "a", "t", "a", "b", "a", "s", "e", "_", "n", "a", "m", "e">> ],
      [ path |-> "database.require_ssl", type |-> "bool",
        section |-> <<"d", "a", "t", "a", "b", "a", "s", "e">>,
        leaf |-> <<"r", "e", "q", "u", "i", "r", "e", "_", "s", "s", "l">> ],
      [ path |-> "redis.uri", type |-> "String",
        section |-> <<"r", "e", "d", "i", "s">>,
        leaf |-> <<"u", "r", "i">> ],
      [ path |-> "redis.pool_max_open", type |-> "u64",
        section |-> <<"r", "e", "d", "i", "s">>,
        leaf |-> <<"p", "o", "o", "l", "_", "m", "a", "x", "_", "o", "p", "e", "n">> ],
      [ path |-> "redis.pool_max_idle", type |-> "u64",
        section |-> <<"r", "e", "d", "i", "s">>,
        leaf |-> <<"p", "o", "o", "l", "_", "m", "a", "x", "_", "i", "d", "l", "e">> ],
      [ path |-> "redis.pool_timeout_seconds", type |-> "u64",
        section |-> <<"r", "e", "d", "i", "s">>,
        leaf |-> <<"p", "o", "o", "l", "_", "t", "i", "m", "e", "o", "u", "t", "_", "s", "e", "c", "o", "n", "d", "s">> ],
      [ path |-> "redis.pool_expire_seconds", type |-> "u64",
        section |-> <<"r", "e", "d", "i", "s">>,
        leaf |-> <<"p", "o", "o", "l", "_", "e", "x", "p", "i", "r", "e", "_", "s", "e", "c", "o", "n", "d", "s">> ]
    >>

FieldIndex == 1..Len(FieldTable)
Fields == { FieldTable[i].path : i \in FieldIndex }
FieldInfo == [ f \in Fields |-> FieldTable[CHOOSE i \in FieldIndex : FieldTable[i].path = f] ]

\* The entries of struct Settings, in declaration order; debug is the one
\* that is no nested struct.
application == <<"a", "p", "p", "l", "i", "c", "a", "t", "i", "o", "n">>
debug == <<"d", "e", "b", "u", "g">>
database == <<"d", "a", "t", "a", "b", "a", "s", "e">>
redis == <<"r", "e", "d", "i", "s">>
TopLevel == << application, debug, database, redis >>

\* The key a source files a field under: "section.leaf", or "leaf" at top level.
KeyOf ==
    [ f \in Fields |->
        IF FieldInfo[f].section = <<>>
        THEN FieldInfo[f].leaf
        ELSE FieldInfo[f].section \o <<".">> \o FieldInfo[f].leaf ]

Key(f) == KeyOf[f]

\* The entry of Settings a field belongs to.
TopOf(f) == IF FieldInfo[f].section = <<>> THEN FieldInfo[f].leaf ELSE FieldInfo[f].section

\* Fields of one entry of Settings, in declaration order.
FieldsOfEntry ==
    [ top \in { TopLevel[i] : i \in 1..Len(TopLevel) } |->
        LET idx == SelectSeq([i \in FieldIndex |-> i], LAMBDA i : TopOf(FieldTable[i].path) = top)
        IN  [j \in 1..Len(idx) |-> FieldTable[idx[j]].path] ]

FieldsOf(top) == FieldsOfEntry[top]

\* A configuration value as a source holds it: absent, an integer, a boolean
\* or a string. Deserialized fields use the same shape.
None == [k |-> "none", n |-> 0, s |-> <<>>]
Integer(n) == [k |-> "int", n |-> n, s |-> <<>>]
Boolean(b) == [k |-> "bool", n |-> IF b THEN 1 ELSE 0, s |-> <<>>]
String(str) == [k |-> "str", n |-> 0, s |-> str]

Digits == <<"0", "1", "2", "3", "4", "5", "6", "7", "8", "9">>
IsDigit(c) == \E i \in 1..Len(Digits) : Digits[i] = c
DigitValue(c) == (CHOOSE i \in 1..Len(Digits) : Digits[i] = c) - 1

IsDecimal(str) == Len(str) > 0 /\ \A i \in 1..Len(str) : IsDigit(str[i])

RECURSIVE ParseDecimal(_)
ParseDecimal(str) ==
    IF Len(str) = 0 THEN 0
    ELSE 10 * ParseDecimal(SubSeq(str, 1, Len(str) - 1)) + DigitValue(str[Len(str)])

RECURSIVE FormatDecimal(_)
FormatDecimal(n) ==
    IF n < 10 THEN <<Digits[n + 1]>>
    ELSE FormatDecimal(n \div 10) \o <<Digits[(n % 10) + 1]>>

true_s == <<"t", "r", "u", "e">>
false_s == <<"f", "a", "l", "s", "e">>
TrueWords == { <<"1">>, true_s, <<"o", "n">>, <<"y", "e", "s">> }
FalseWords == { <<"0">>, false_s, <<"o", "f", "f">>, <<"n", "o">> }

U16Modulus == 65536

Failed == [ok |-> FALSE, v |-> None]
Got(v) == [ok |-> TRUE, v |-> v]

\* An integer read into a u16 field: rejected when out of range by a build
\* whose config crate checks the narrowing, reduced modulo 2^16 by one whose
\* crate casts.
NarrowU16(n, cast) ==
    IF n >= 0 /\ n < U16Modulus THEN Got(Integer(n))
    ELSE IF cast = "wrapping" THEN Got(Integer(n % U16Modulus))
    ELSE Failed

\* The number a value stands for, if any.
AsInteger(raw) ==
    CASE raw.k = "int" -> Got(Integer(raw.n))
      [] raw.k = "bool" -> Got(Integer(raw.n))
      [] raw.k = "str" -> IF IsDecimal(raw.s) THEN Got(Integer(ParseDecimal(raw.s))) ELSE Failed
      [] OTHER -> Failed

\* Coercion of a source's value to a field's declared type.
Coerce_defaulting(type, raw, cast) ==
    CASE type = "String" -> Got(String(<<>>))
      [] type = "bool" -> Got(Boolean(FALSE))
      [] OTHER -> Got(Integer(0))

Coerce(type, raw, cast) ==
    CASE type = "u16" ->
            IF AsInteger(raw).ok THEN NarrowU16(AsInteger(raw).v.n, cast) ELSE Failed
      [] type = "u64" ->
            IF AsInteger(raw).ok /\ AsInteger(raw).v.n >= 0 THEN AsInteger(raw) ELSE Failed
      [] type = "bool" ->
            CASE raw.k = "bool" -> Got(Boolean(raw.n = 1))
              [] raw.k = "int" -> Got(Boolean(raw.n # 0))
              [] raw.k = "str" ->
                    IF to_lowercase(raw.s) \in TrueWords THEN Got(Boolean(TRUE))
                    ELSE IF to_lowercase(raw.s) \in FalseWords THEN Got(Boolean(FALSE))
                    ELSE Failed
              [] OTHER -> Failed
      [] type = "String" ->
            CASE raw.k = "str" -> Got(String(raw.s))
              [] raw.k = "int" -> IF raw.n >= 0 THEN Got(String(FormatDecimal(raw.n))) ELSE Failed
              [] raw.k = "bool" -> Got(String(IF raw.n = 1 THEN true_s ELSE false_s))
              [] OTHER -> Failed

(***************************************************************************)
(* The three sources of get_settings                                       *)
(***************************************************************************)
EmptyTable == [f \in Fields |-> None]

\* config::Environment::with_prefix("APP").prefix_separator("_").separator("__"):
\* the key of a variable, or no key when the variable lacks the prefix.
app_prefix == <<"a", "p", "p", "_">>

RECURSIVE ReplaceSeparator(_)
ReplaceSeparator(str) ==
    IF Len(str) = 0 THEN <<>>
    ELSE IF Len(str) >= 2 /\ str[1] = "_" /\ str[2] = "_"
    THEN <<".">> \o ReplaceSeparator(SubSeq(str, 3, Len(str)))
    ELSE <<str[1]>> \o ReplaceSeparator(Tail(str))

env_key(name) ==
    LET key == to_lowercase(name) IN
    IF StartsWith(key, app_prefix)
    THEN [ok |-> TRUE, key |-> ReplaceSeparator(SubSeq(key, Len(app_prefix) + 1, Len(key)))]
    ELSE [ok |-> FALSE, key |-> <<>>]

\* The table the environment-variable source contributes: every value a string.
EnvironmentSource(env) ==
    [ f \in Fields |->
        IF \E name \in DOMAIN env : env_key(name) = [ok |-> TRUE, key |-> Key(f)]
        THEN String(env[CHOOSE name \in DOMAIN env : env_key(name) = [ok |-> TRUE, key |-> Key(f)]])
        ELSE None ]

\* A later source overwrites the fields it defines and leaves the others.
Merge(earlier, later) ==
    [ f \in Fields |-> IF later[f].k # "none" THEN later[f] ELSE earlier[f] ]

NoError == [kind |-> "none", name |-> <<>>]

\* config::File::from(path), a required file.
FileSource(fs, name) ==
    IF ~fs[name].exists THEN [ok |-> FALSE, err |-> [kind |-> "not found", name |-> name], table |-> EmptyTable]
    ELSE IF ~fs[name].wellformed THEN [ok |-> FALSE, err |-> [kind |-> "file parse", name |-> name], table |-> EmptyTable]
    ELSE [ok |-> TRUE, err |-> NoError, table |-> fs[name].table]

\* Config::builder().add_source(base).add_source(environment file)
\*     .add_source(environment variables).build()
build_environment_file_first(fs, env, environment_filename) ==
    LET base == FileSource(fs, base_yaml)
        specific == FileSource(fs, environment_filename)
    IN  IF ~base.ok THEN base
        ELSE IF ~specific.ok THEN specific
        ELSE [ok |-> TRUE, err |-> NoError,
              table |-> Merge(Merge(specific.table, base.table), EnvironmentSource(env))]

build(fs, env, environment_filename) ==
    LET base == FileSource(fs, base_yaml)
        specific == FileSource(fs, environment_filename)
    IN  IF ~base.ok THEN base
        ELSE IF ~specific.ok THEN specific
        ELSE [ok |-> TRUE, err |-> NoError,
              table |-> Merge(Merge(base.table, specific.table), EnvironmentSource(env))]

(***************************************************************************)
(* try_deserialize::<Settings>()                                           *)
(***************************************************************************)
Present(table, f) == table[f].k # "none"

EntryPresent(table, top) ==
    \E i \in 1..Len(FieldsOf(top)) : Present(table, FieldsOf(top)[i])

\* What deserializing one present entry of Settings reports: the values that
\* do not coerce to their field's type, then the fields that are missing.
EntryErrors(table, top, cast) ==
    LET fs == FieldsOf(top)
        bad == SelectSeq(fs, LAMBDA f :
                   Present(table, f) /\ ~Coerce(FieldInfo[f].type, table[f], cast).ok)
        missing == SelectSeq(fs, LAMBDA f : ~Present(table, f))
    IN  [i \in 1..Len(bad) |-> [kind |-> "invalid type", name |-> Key(bad[i])]]
        \o [i \in 1..Len(missing) |->
               [kind |-> "missing field", name |-> FieldInfo[missing[i]].leaf]]

\* Entries present are deserialized, in declaration order, before the
\* entries that are missing altogether are reported.
DeserializeErrors(table, cast) ==
    LET of(i) == IF EntryPresent(table, TopLevel[i])
                 THEN EntryErrors(table, TopLevel[i], cast) ELSE <<>>
        absent == SelectSeq(TopLevel, LAMBDA top : ~EntryPresent(table, top))
    IN  of(1) \o of(2) \o of(3) \o of(4)
        \o [i \in 1..Len(absent) |-> [kind |-> "missing field", name |-> absent[i]]]

NoResult == [kind |-> "none", settings |-> EmptyTable, err |-> NoError,
             environment_filename |-> <<>>]

try_deserialize_with_defaults(table, cast, environment_filename) ==
    [ kind |-> "ok",
      settings |-> [f \in Fields |->
                      IF Present(table, f) /\ Coerce(FieldInfo[f].type, table[f], cast).ok
                      THEN Coerce(FieldInfo[f].type, table[f], cast).v
                      ELSE Coerce_defaulting(FieldInfo[f].type, table[f], cast).v],
      err |-> NoError,
      environment_filename |-> environment_filename ]

try_deserialize(table, cast, environment_filename) ==
    LET errors == DeserializeErrors(table, cast) IN
    IF errors # <<>>
    THEN [ kind |-> "err", settings |-> EmptyTable, err |-> Head(errors),
           environment_filename |-> environment_filename ]
    ELSE [ kind |-> "ok",
           settings |-> [f \in Fields |-> Coerce(FieldInfo[f].type, table[f], cast).v],
           err |-> NoError,
           environment_filename |-> environment_filename ]

(***************************************************************************)
(* get_settings                                                            *)
(***************************************************************************)
\* std::env::var("APP_ENVIRONMENT").unwrap_or_else(|_| "development".into())
app_environment_default_production(env) ==
    IF APP_ENVIRONMENT \in DOMAIN env THEN env[APP_ENVIRONMENT] ELSE production

app_environment(env) ==
    IF APP_ENVIRONMENT \in DOMAIN env THEN env[APP_ENVIRONMENT] ELSE development

\* .expect("Failed to parse APP_ENVIRONMENT.") on an Err: the call panics.
expect_failed_returns_err ==
    [ kind |-> "err", settings |-> EmptyTable,
      err |-> [kind |-> "unsupported environment", name |-> APP_ENVIRONMENT],
      environment_filename |-> <<>> ]

expect_failed ==
    [ kind |-> "panic", settings |-> EmptyTable,
      err |-> [kind |-> "Failed to parse APP_ENVIRONMENT.", name |-> APP_ENVIRONMENT],
      environment_filename |-> <<>> ]

get_settings(fs, env, cast) ==
    LET environment == try_from(app_environment(env)) IN
    IF ~environment.ok THEN expect_failed
    ELSE
        LET environment_filename == as_str(environment.env) \o yaml_ext
            settings == build(fs, env, environment_filename)
        IN  IF ~settings.ok
            THEN [ kind |-> "err", settings |-> EmptyTable, err |-> settings.err,
                   environment_filename |-> environment_filename ]
            ELSE try_deserialize(settings.table, cast, environment_filename)

(***************************************************************************)
(* The settings directory and the process environment get_settings reads   *)
(***************************************************************************)
MaxCalls == 2

FileNames == { base_yaml, development_yaml, production_yaml }

\* The value each source gives a field of a type: a different one per source,
\* so that a resolved value tells the source it came from.
SourceValue(source, type) ==
    CASE type = "u16" ->
            CASE source = base_yaml -> Integer(8000)
              [] source = development_yaml -> Integer(9000)
              [] source = production_yaml -> Integer(9443)
              [] OTHER -> String(<<"5", "0", "0", "1">>)
      [] type = "u64" ->
            CASE source = base_yaml -> Integer(10)
              [] source = development_yaml -> Integer(20)
              [] source = production_yaml -> Integer(30)
              [] OTHER -> String(<<"4", "0">>)
      [] type = "bool" ->
            CASE source = base_yaml -> Boolean(FALSE)
              [] source = development_yaml -> Boolean(TRUE)
              [] source = production_yaml -> Boolean(FALSE)
              [] OTHER -> String(true_s)
      [] OTHER ->
            CASE source = base_yaml -> String(<<"b">>)
              [] source = development_yaml -> String(<<"d">>)
              [] source = production_yaml -> String(<<"p">>)
              [] OTHER -> String(<<"e">>)

\* Values that do not fit the declared type of a field.
abc == <<"a", "b", "c">>
seventy_thousand == <<"7", "0", "0", "0", "0">>

FileValues(file, f) ==
    { None, SourceValue(file, FieldInfo[f].type) }
    \cup (IF file = production_yaml THEN {}
          ELSE CASE FieldInfo[f].type = "u16" -> { Integer(ParseDecimal(seventy_thousand)), String(abc) }
                 [] FieldInfo[f].type = "u64" -> { String(abc) }
                 [] FieldInfo[f].type = "bool" -> { String(<<"m", "a", "y", "b", "e">>) }
                 [] OTHER -> {})

\* The values a field's variable may hold; None stands for the variable
\* being unset.
EnvValues(f) ==
    { None, SourceValue(<<>>, FieldInfo[f].type) }
    \cup CASE FieldInfo[f].type = "u16" -> { String(seventy_thousand), String(abc) }
           [] FieldInfo[f].type = "u64" -> { String(abc) }
           [] FieldInfo[f].type = "bool" -> { String(<<"m", "a", "y", "b", "e">>) }
           [] OTHER -> {}

RECURSIVE InsertSeparator(_)
InsertSeparator(str) ==
    IF Len(str) = 0 THEN <<>>
    ELSE IF str[1] = "." THEN <<"_", "_">> \o InsertSeparator(Tail(str))
    ELSE <<str[1]>> \o InsertSeparator(Tail(str))

\* The variable that addresses a field: APP_<SECTION>__<LEAF>.
EnvVarNameOf == [ f \in Fields |-> to_uppercase(app_prefix \o InsertSeparator(Key(f))) ]

EnvVarName(f) == EnvVarNameOf[f]

\* The form the doc comment of get_settings gives, and one without the prefix.
APP__APPLICATION_PORT == to_uppercase(app_prefix \o <<"_">> \o application \o <<"_", "p", "o", "r", "t">>)
APPLICATION__PORT == to_uppercase(application \o <<"_", "_", "p", "o", "r", "t">>)

AppEnvironmentValues ==
    { development, production, Capitalise(production, {1}), to_uppercase(development),
      staging, Capitalise(staging, {1}), <<>>, production \o <<" ">> }

BaseTable == [f \in Fields |-> SourceValue(base_yaml, FieldInfo[f].type)]

DevelopmentTable ==
    [f \in Fields |->
        IF f \in {"debug", "application.base_url"}
        THEN SourceValue(development_yaml, FieldInfo[f].type) ELSE None]

ProductionTable ==
    [f \in Fields |->
        IF f \in {"debug", "application.base_url", "database.require_ssl"}
        THEN SourceValue(production_yaml, FieldInfo[f].type) ELSE None]

\* A settings directory as a deployment ships it.
ShippedFiles ==
    [ name \in FileNames |->
        [ exists |-> TRUE, wellformed |-> TRUE,
          table |-> CASE name = base_yaml -> BaseTable
                      [] name = development_yaml -> DevelopmentTable
                      [] OTHER -> ProductionTable ] ]

NoVariables == [name \in {} |-> <<>>]

WriteField(fs, file, f, v) == [fs EXCEPT ![file].table[f] = v]

RemoveFile(fs, file) ==
    [fs EXCEPT ![file] = [exists |-> FALSE, wellformed |-> FALSE, table |-> EmptyTable]]

CorruptFile(fs, file) ==
    [fs EXCEPT ![file] = [exists |-> TRUE, wellformed |-> FALSE, table |-> EmptyTable]]

SetVar(env, name, value) ==
    [n \in DOMAIN env \cup {name} |-> IF n = name THEN value ELSE env[n]]

\* One more change to a deployment, besides the values of the field under
\* study: nothing, a field dropped from base.yaml, a file removed or made
\* unparseable, a variable set.
NoChange == [op |-> "none", file |-> <<>>, field |-> "debug", name |-> <<>>, value |-> <<>>]

Changes ==
    { NoChange }
    \cup { [NoChange EXCEPT !.op = "drop", !.field = g] : g \in Fields }
    \cup { [NoChange EXCEPT !.op = "remove", !.file = file] : file \in FileNames }
    \cup { [NoChange EXCEPT !.op = "corrupt", !.file = file] : file \in FileNames }
    \cup { [NoChange EXCEPT !.op = "set", !.name = APP_ENVIRONMENT, !.value = v] :
             v \in AppEnvironmentValues }
    \cup { [NoChange EXCEPT !.op = "set", !.name = name, !.value = <<"5", "0", "0", "1">>] :
             name \in { APP__APPLICATION_PORT, APPLICATION__PORT } }

ChangedFiles(fs, c) ==
    CASE c.op = "drop" -> WriteField(fs, base_yaml, c.field, None)
      [] c.op = "remove" -> RemoveFile(fs, c.file)
      [] c.op = "corrupt" -> CorruptFile(fs, c.file)
      [] OTHER -> fs

ChangedEnviron(env, c) ==
    IF c.op = "set" THEN SetVar(env, c.name, c.value) ELSE env

\* The deployments get_settings is run in: the shipped files with one field
\* given any combination of values in the three files and its variable, and
\* one further change.
Init ==
    /\ \E f \in Fields :
       \E b \in FileValues(base_yaml, f), d \in FileValues(development_yaml, f),
          p \in FileValues(production_yaml, f), e \in EnvValues(f), c \in Changes :
          /\ files = ChangedFiles(
                        WriteField(WriteField(WriteField(ShippedFiles,
                            base_yaml, f, b), development_yaml, f, d), production_yaml, f, p),
                        c)
          /\ environ = ChangedEnviron(
                        IF e = None THEN NoVariables ELSE SetVar(NoVariables, EnvVarName(f), e.s),
                        c)
    /\ intCast \in {"checked", "wrapping"}
    /\ calls = 0
    /\ result = NoResult
    /\ IdleEnv
    /\ IdleDb

GetSettingsExportsEnvironment ==
    /\ calls < MaxCalls
    /\ result' = get_settings(files, environ, intCast)
    /\ environ' = SetVar(environ, APP_ENVIRONMENT, production)
    /\ calls' = calls + 1
    /\ UNCHANGED <<files, intCast>>
    /\ UNCHANGED envVars
    /\ UNCHANGED dbVars

GetSettings ==
    /\ calls < MaxCalls
    /\ result' = get_settings(files, environ, intCast)
    /\ calls' = calls + 1
    /\ UNCHANGED <<files, environ, intCast>>
    /\ UNCHANGED envVars
    /\ UNCHANGED dbVars

Next == GetSettings

Spec == Init /\ [][Next]_vars

(***************************************************************************)
(* Properties of get_settings                                              *)
(***************************************************************************)
AppEnvironmentSet == APP_ENVIRONMENT \in DOMAIN environ

AppEnvironmentSupported ==
    AppEnvironmentSet /\ to_lowercase(environ[APP_ENVIRONMENT]) \in {development, production}

\* The environment-specific file of the deployment, when APP_ENVIRONMENT is
\* unset or supported.
SelectedFile ==
    IF AppEnvironmentSet /\ to_lowercase(environ[APP_ENVIRONMENT]) = production
    THEN production_yaml ELSE development_yaml

FilesLoad ==
    /\ files[base_yaml].exists /\ files[base_yaml].wellformed
    /\ files[SelectedFile].exists /\ files[SelectedFile].wellformed

\* What the highest-precedence source that defines f gives it; None when no
\* source defines it.
TopValue(f) ==
    IF EnvVarName(f) \in DOMAIN environ THEN String(environ[EnvVarName(f)])
    ELSE IF files[SelectedFile].table[f] # None THEN files[SelectedFile].table[f]
    ELSE files[base_yaml].table[f]

Loaded == calls > 0

C3_EnvironmentFileSelection ==
    Loaded =>
        /\ ~AppEnvironmentSet =>
              /\ result.kind # "panic"
              /\ result.environment_filename = development_yaml
              /\ result.err.name # production_yaml
        /\ (AppEnvironmentSet /\ to_lowercase(environ[APP_ENVIRONMENT]) = development) =>
              /\ result.kind # "panic"
              /\ result.environment_filename = development_yaml
        /\ (AppEnvironmentSet /\ to_lowercase(environ[APP_ENVIRONMENT]) = production) =>
              /\ result.kind # "panic"
              /\ result.environment_filename = production_yaml

C3_Witness ==
    /\ Loaded
    /\ ~AppEnvironmentSet
    /\ ~files[production_yaml].exists
    /\ result.kind = "ok"
    /\ result.environment_filename = development_yaml

\* C4 as stated: with APP_ENVIRONMENT set to an unsupported value,
\* get_settings returns an error value (Err) to its caller.
C4_UnsupportedEnvironmentReturnsErr ==
    (Loaded /\ AppEnvironmentSet /\ ~AppEnvironmentSupported) => result.kind = "err"

\* C4 as amended: with APP_ENVIRONMENT set to an unsupported value,
\* get_settings does not return: it panics with "Failed to parse
\* APP_ENVIRONMENT.", producing neither a Settings value nor an Err.
C4_UnsupportedEnvironmentPanics ==
    (Loaded /\ AppEnvironmentSet /\ ~AppEnvironmentSupported) =>
        /\ result.kind = "panic"
        /\ result.settings = EmptyTable

C4_Witness ==
    /\ Loaded
    /\ AppEnvironmentSet
    /\ environ[APP_ENVIRONMENT] = Capitalise(staging, {1})
    /\ result.kind = "panic"

\* No source of the deployment defines f.
Undefined(f) ==
    /\ EnvVarName(f) \notin DOMAIN environ
    /\ files[base_yaml].table[f] = None
    /\ files[SelectedFile].table[f] = None

\* Both files load and every field other than f is defined with a value of
\* its type.
OnlyDefect(f) ==
    /\ FilesLoad
    /\ \A g \in Fields \ {f} :
          /\ TopValue(g) # None
          /\ Coerce(FieldInfo[g].type, TopValue(g), intCast).ok

MissingField(f) == [kind |-> "missing field", name |-> FieldInfo[f].leaf]

\* C6 as stated (for deployments whose files load and whose APP_ENVIRONMENT is
\* unset or supported): a required field that no source defines makes
\* get_settings fail with a missing-field error naming that field.
C6_MissingFieldAlwaysNamed ==
    (Loaded /\ FilesLoad /\ (AppEnvironmentSet => AppEnvironmentSupported)) =>
        \A f \in Fields :
            Undefined(f) =>
                /\ result.kind = "err"
                /\ result.err = MissingField(f)
                /\ result.settings = EmptyTable

\* C6 as amended: a required field that no source defines makes get_settings
\* fail and return no Settings value, no field having a default; the error is
\* the missing-field error naming that field when the field is the only
\* defect of the deployment.
C6_MissingFieldFails ==
    (Loaded /\ (AppEnvironmentSet => AppEnvironmentSupported)) =>
        \A f \in Fields :
            Undefined(f) =>
                /\ result.kind = "err"
                /\ result.settings = EmptyTable
                /\ OnlyDefect(f) => result.err = MissingField(f)

C6_Witness ==
    /\ Loaded
    /\ Undefined("database.port")
    /\ OnlyDefect("database.port")
    /\ result.kind = "err"
    /\ result.err = [kind |-> "missing field", name |-> <<"p", "o", "r", "t">>]

====
